---- MODULE Spec2Model ----
(***************************************************************************)
(* Model of the Reply builder of src/reply.go (package aah).               *)
(*                                                                         *)
(* A Go string is modelled as the sequence of its ASCII character codes,   *)
(* so that strings.ToLower, header-key canonicalisation, string comparison *)
(* and concatenation are computed character by character.                  *)
(* A nil pointer / nil interface value is the record Nil.                  *)
(***************************************************************************)
EXTENDS Integers, Sequences, FiniteSets, TLC

\* ------------------------------------------------------------------------
\* Bounds of the model
\* ------------------------------------------------------------------------

\* Number of builder calls a handler makes on one Reply before the flush.
MaxCalls == 3

\* Number of concurrent request-handling tasks that use the pools.
NumTasks == 2

\* Number of instances the New function of one pool allocates.
MaxInstances == 2

\* Number of bytes a task writes into one pooled instance.
MaxLen == 1

\* Number of bytes a reader or a file holds.
MaxData == 2

\* Number of binaryRender.Render calls.
MaxRenders == 2

\* ------------------------------------------------------------------------
\* Values
\* ------------------------------------------------------------------------

Nil == [type |-> "nil"]

EmptyString == << >>

\* "Content-Type"
HeaderContentType == <<67, 111, 110, 116, 101, 110, 116, 45, 84, 121, 112, 101>>

\* "Content-Disposition"
HeaderContentDisposition ==
    <<67, 111, 110, 116, 101, 110, 116, 45, 68, 105, 115, 112, 111, 115, 105, 116, 105, 111, 110>>

\* "application/json; charset=utf-8"
ContentTypeJSON ==
    <<97, 112, 112, 108, 105, 99, 97, 116, 105, 111, 110, 47, 106, 115, 111, 110, 59, 32,
      99, 104, 97, 114, 115, 101, 116, 61, 117, 116, 102, 45, 56>>

\* "application/javascript; charset=utf-8"
ContentTypeJavascript ==
    <<97, 112, 112, 108, 105, 99, 97, 116, 105, 111, 110, 47, 106, 97, 118, 97, 115, 99,
      114, 105, 112, 116, 59, 32, 99, 104, 97, 114, 115, 101, 116, 61, 117, 116, 102, 45, 56>>

\* "application/xml; charset=utf-8"
ContentTypeXML ==
    <<97, 112, 112, 108, 105, 99, 97, 116, 105, 111, 110, 47, 120, 109, 108, 59, 32,
      99, 104, 97, 114, 115, 101, 116, 61, 117, 116, 102, 45, 56>>

\* "text/plain; charset=utf-8"
ContentTypePlainText ==
    <<116, 101, 120, 116, 47, 112, 108, 97, 105, 110, 59, 32,
      99, 104, 97, 114, 115, 101, 116, 61, 117, 116, 102, 45, 56>>

\* "text/html; charset=utf-8"
ContentTypeHTML ==
    <<116, 101, 120, 116, 47, 104, 116, 109, 108, 59, 32,
      99, 104, 97, 114, 115, 101, 116, 61, 117, 116, 102, 45, 56>>

\* "attachment; filename="
AttachmentPrefix ==
    <<97, 116, 116, 97, 99, 104, 109, 101, 110, 116, 59, 32, 102, 105, 108, 101, 110, 97, 109, 101, 61>>

\* "inline; filename="
InlinePrefix ==
    <<105, 110, 108, 105, 110, 101, 59, 32, 102, 105, 108, 101, 110, 97, 109, 101, 61>>

\* net/http status codes used by the shortcuts
StatusOK == 200
StatusCreated == 201
StatusAccepted == 202
StatusNoContent == 204
StatusMovedPermanently == 301
StatusFound == 302
StatusTemporaryRedirect == 307
StatusBadRequest == 400
StatusUnauthorized == 401
StatusForbidden == 403
StatusNotFound == 404
StatusMethodNotAllowed == 405
StatusNotAcceptable == 406
StatusConflict == 409
StatusUnsupportedMediaType == 415
StatusInternalServerError == 500
StatusServiceUnavailable == 503

\* ------------------------------------------------------------------------
\* Library functions the builder calls
\* ------------------------------------------------------------------------

\* strings.ToLower on ASCII text: 'A'..'Z' are mapped to 'a'..'z'.
ToLower(s) ==
    [i \in 1..Len(s) |-> IF s[i] \in 65..90 THEN s[i] + 32 ELSE s[i]]

\* textproto.CanonicalMIMEHeaderKey on a valid token: the first letter and
\* every letter after a hyphen is upper-cased, every other letter lower-cased.
CanonicalHeaderKey(k) ==
    [i \in 1..Len(k) |->
        LET upper == (i = 1) \/ (k[i - 1] = 45)
        IN  IF upper /\ k[i] \in 97..122 THEN k[i] - 32
            ELSE IF ~upper /\ k[i] \in 65..90 THEN k[i] + 32
            ELSE k[i]]

\* http.Header: a map from canonical key to the list of its values.
EmptyHeader == [k \in {} |-> << >>]

HeaderSet(h, key, value) ==
    LET c == CanonicalHeaderKey(key)
    IN  [k \in (DOMAIN h) \cup {c} |-> IF k = c THEN <<value>> ELSE h[k]]

HeaderAdd(h, key, value) ==
    LET c == CanonicalHeaderKey(key)
    IN  [k \in (DOMAIN h) \cup {c} |->
            IF k = c
            THEN (IF c \in DOMAIN h THEN Append(h[c], value) ELSE <<value>>)
            ELSE h[k]]

HeaderDel(h, key) ==
    LET c == CanonicalHeaderKey(key)
    IN  [k \in (DOMAIN h) \ {c} |-> h[k]]

\* filepath.IsAbs on a Unix path: the path starts with '/'.
IsAbs(file) == Len(file) > 0 /\ file[1] = 47

\* filepath.Join(base, file) for clean elements: empty elements are ignored,
\* the others are joined with '/'.
Join(base, file) ==
    IF Len(file) = 0 THEN base
    ELSE IF Len(base) = 0 THEN file
    ELSE base \o <<47>> \o file

\* ------------------------------------------------------------------------
\* Renderers (the values a Reply's Rdr field refers to)
\* ------------------------------------------------------------------------

jsonRender(data) == [type |-> "jsonRender", Data |-> data]

secureJSONRender(data, prefix) ==
    [type |-> "secureJSONRender", Data |-> data, Prefix |-> prefix]

jsonpRender(data, callback) ==
    [type |-> "jsonpRender", Data |-> data, Callback |-> callback]

xmlRender(data) == [type |-> "xmlRender", Data |-> data]

textRender(format, values) ==
    [type |-> "textRender", Format |-> format, Values |-> values]

binaryRender(path, reader) ==
    [type |-> "binaryRender", Path |-> path, Reader |-> reader]

htmlRender(layout, filename, data) ==
    [type |-> "htmlRender", Template |-> Nil, Layout |-> layout,
     Filename |-> filename, ViewArgs |-> data]

\* bytes.NewReader(b)
NewReader(b) == [type |-> "bytes.Reader", s |-> b]

\* ------------------------------------------------------------------------
\* Reply: the builder's methods, each a function from the Reply it is
\* called on to the Reply after the call.  The fields are those of the
\* struct; rr.ctx.Res.Header is the response header map of the Context and
\* rr.ctx.a the application (base directory, settings).
\* ------------------------------------------------------------------------

\* newReply(ctx)
newReply(ctx) ==
    [Rdr |-> Nil, Code |-> StatusOK, ContType |-> EmptyString,
     redirect |-> FALSE, done |-> FALSE, gzip |-> TRUE, path |-> EmptyString,
     ctx |-> ctx, body |-> Nil, cookies |-> << >>, err |-> Nil]

\* Mutation of Status: the first status set is kept.
Status_SetOnce(rr, code) ==
    IF rr.Code = StatusOK THEN [rr EXCEPT !.Code = code] ELSE rr

\* Mutation of Status: the content type is reset with the code.
Status_ResetsContentType(rr, code) ==
    [rr EXCEPT !.Code = code, !.ContType = EmptyString]

Status(rr, code) == [rr EXCEPT !.Code = code]

Ok(rr) == Status(rr, StatusOK)

Created(rr) == Status(rr, StatusCreated)

Accepted(rr) == Status(rr, StatusAccepted)

NoContent(rr) == Status(rr, StatusNoContent)

MovedPermanently(rr) == Status(rr, StatusMovedPermanently)

Found(rr) == Status(rr, StatusFound)

TemporaryRedirect(rr) == Status(rr, StatusTemporaryRedirect)

BadRequest(rr) == Status(rr, StatusBadRequest)

Unauthorized(rr) == Status(rr, StatusUnauthorized)

Forbidden(rr) == Status(rr, StatusForbidden)

NotFound(rr) == Status(rr, StatusNotFound)

MethodNotAllowed(rr) == Status(rr, StatusMethodNotAllowed)

NotAcceptable(rr) == Status(rr, StatusNotAcceptable)

Conflict(rr) == Status(rr, StatusConflict)

UnsupportedMediaType(rr) == Status(rr, StatusUnsupportedMediaType)

InternalServerError(rr) == Status(rr, StatusInternalServerError)

ServiceUnavailable(rr) == Status(rr, StatusServiceUnavailable)

\* Mutation of ContentType: the guard on an already set content type is lost.
ContentType_LastWriteWins(rr, contentType) ==
    [rr EXCEPT !.ContType = ToLower(contentType)]

ContentType(rr, contentType) ==
    IF Len(rr.ContType) = 0
    THEN [rr EXCEPT !.ContType = ToLower(contentType)]
    ELSE rr

\* Mutation of Render: an already attached renderer is kept.
Render_KeepsFirst(rr, rdr) ==
    IF rr.Rdr = Nil THEN [rr EXCEPT !.Rdr = rdr] ELSE rr

\* Mutation of Render: attaching a renderer clears the done flag.
Render_ClearsDone(rr, rdr) == [rr EXCEPT !.Rdr = rdr, !.done = FALSE]

Render(rr, rdr) == [rr EXCEPT !.Rdr = rdr]

JSON(rr, data) ==
    Render(ContentType(rr, ContentTypeJSON), jsonRender(data))

JSONSecure(rr, data) ==
    Render(ContentType(rr, ContentTypeJSON),
           secureJSONRender(data, rr.ctx.a.settings.SecureJSONPrefix))

JSONP(rr, data, callback) ==
    Render(ContentType(rr, ContentTypeJavascript), jsonpRender(data, callback))

XML(rr, data) ==
    Render(ContentType(rr, ContentTypeXML), xmlRender(data))

Text(rr, format, values) ==
    Render(ContentType(rr, ContentTypePlainText), textRender(format, values))

\* Mutation of FromReader: it marks the reply gzip-eligible, as if the
\* source had been inspected.
FromReader_SetsGzip(rr, reader) ==
    [rr EXCEPT !.gzip = TRUE, !.Rdr = binaryRender(EmptyString, reader)]

FromReader(rr, reader) == Render(rr, binaryRender(EmptyString, reader))

\* Mutation of Binary: the bytes are also kept in the body buffer.
Binary_FillsBody(rr, b) ==
    [rr EXCEPT !.Rdr = binaryRender(EmptyString, NewReader(b)),
               !.body = [type |-> "bytes.Buffer", s |-> b]]

Binary(rr, b) == FromReader(rr, NewReader(b))

\* worth is the answer of util.IsGzipWorthForFile for the resolved file.
File(rr, file, worth) ==
    LET resolved == IF ~IsAbs(file) THEN Join(rr.ctx.a.BaseDir, file) ELSE file
    IN  Render([rr EXCEPT !.gzip = worth], binaryRender(resolved, Nil))

Header(rr, key, value) ==
    IF Len(value) = 0
    THEN IF key = HeaderContentType
         THEN ContentType(rr, EmptyString)
         ELSE [rr EXCEPT !.ctx.Res.Header = HeaderDel(@, key)]
    ELSE IF key = HeaderContentType
         THEN ContentType(rr, value)
         ELSE [rr EXCEPT !.ctx.Res.Header = HeaderSet(@, key, value)]

HeaderAppend(rr, key, value) ==
    IF key = HeaderContentType
    THEN ContentType(rr, value)
    ELSE [rr EXCEPT !.ctx.Res.Header = HeaderAdd(@, key, value)]

FileDownload(rr, file, targetName, worth) ==
    File(Header(rr, HeaderContentDisposition, AttachmentPrefix \o targetName),
         file, worth)

FileInline(rr, file, targetName, worth) ==
    File(Header(rr, HeaderContentDisposition, InlinePrefix \o targetName),
         file, worth)

\* Mutation of HTMLlf: the ContentType call is lost.
HTMLlf_NoContentType(rr, layout, filename, data) ==
    [rr EXCEPT !.Rdr = htmlRender(layout, filename, data)]

HTMLlf(rr, layout, filename, data) ==
    Render(ContentType(rr, ContentTypeHTML), htmlRender(layout, filename, data))

HTML(rr, data) == HTMLlf(rr, EmptyString, EmptyString, data)

HTMLl(rr, layout, data) == HTMLlf(rr, layout, EmptyString, data)

HTMLf(rr, filename, data) == HTMLlf(rr, EmptyString, filename, data)

\* Mutation of RedirectWithStatus: the attached renderer is dropped.
RedirectWithStatus_DropsRenderer(rr, redirectURL, code) ==
    [rr EXCEPT !.redirect = TRUE, !.Code = code, !.path = redirectURL, !.Rdr = Nil]

RedirectWithStatus(rr, redirectURL, code) ==
    [Status([rr EXCEPT !.redirect = TRUE], code) EXCEPT !.path = redirectURL]

Redirect(rr, redirectURL) == RedirectWithStatus(rr, redirectURL, StatusFound)

\* Mutation of Error: the attached renderer is dropped.
Error_DropsRenderer(rr, e) == [rr EXCEPT !.err = e, !.Rdr = Nil]

Error(rr, e) == [rr EXCEPT !.err = e]

\* Mutation of Done: the flag is not set.
Done_NotSet(rr) == rr

Done(rr) == [rr EXCEPT !.done = TRUE]

\* Mutation of Cookie: a cookie of the same name is replaced.
Cookie_ReplacesSameName(rr, cookie) ==
    IF \E i \in 1..Len(rr.cookies) : rr.cookies[i].Name = cookie.Name
    THEN [rr EXCEPT !.cookies =
            [i \in 1..Len(@) |-> IF @[i].Name = cookie.Name THEN cookie ELSE @[i]]]
    ELSE [rr EXCEPT !.cookies = Append(@, cookie)]

\* A nil slice and an empty slice are both the empty sequence.
Cookie(rr, cookie) == [rr EXCEPT !.cookies = Append(@, cookie)]

\* Mutation of DisableGzip: the flag is assigned the wrong constant.
DisableGzip_SetsTrue(rr) == [rr EXCEPT !.gzip = TRUE]

DisableGzip(rr) == [rr EXCEPT !.gzip = FALSE]

IsContentTypeSet(rr) == Len(rr.ContType) > 0

Body(rr) == rr.body

\* ------------------------------------------------------------------------
\* The transport's flush of a Reply (the dispatch of the Render contract):
\* done is checked first, then redirect, then the attached error, and
\* otherwise the attached renderer's Render is invoked against the sink and
\* its failure handed to the error collaborator.  result is what that one
\* Render call does: the writes it makes to the sink and the error it returns.
\* ------------------------------------------------------------------------

NoOutput ==
    [flushed |-> FALSE, sink |-> << >>, redirected |-> Nil, errTo |-> Nil, renders |-> 0]

\* Mutation of the flush: the attached error is looked at before the redirect.
TransportFlush_ErrorFirst(rr, result) ==
    LET o == [NoOutput EXCEPT !.flushed = TRUE]
    IN  IF rr.done THEN o
        ELSE IF rr.err # Nil
             THEN [o EXCEPT !.errTo = rr.err]
        ELSE IF rr.redirect
             THEN [o EXCEPT !.redirected = [code |-> rr.Code, location |-> rr.path]]
        ELSE IF rr.Rdr # Nil
             THEN [o EXCEPT !.renders = 1, !.sink = result.written, !.errTo = result.err]
        ELSE o

TransportFlush(rr, result) ==
    LET o == [NoOutput EXCEPT !.flushed = TRUE]
    IN  IF rr.done THEN o
        ELSE IF rr.redirect
             THEN [o EXCEPT !.redirected = [code |-> rr.Code, location |-> rr.path]]
        ELSE IF rr.err # Nil
             THEN [o EXCEPT !.errTo = rr.err]
        ELSE IF rr.Rdr # Nil
             THEN [o EXCEPT !.renders = 1, !.sink = result.written, !.errTo = result.err]
        ELSE o

\* ------------------------------------------------------------------------
\* Inputs of the calls
\* ------------------------------------------------------------------------

\* Status codes passed to Status and RedirectWithStatus.
StatusInputs == {200, 418}

\* Content types passed to ContentType: "", "A/b", "a/c".
ContentTypeInputs == {EmptyString, <<65, 47, 98>>, <<97, 47, 99>>}

\* Header keys: "Content-Type", "content-type", "x-a".
HeaderKeys == {HeaderContentType, <<99, 111, 110, 116, 101, 110, 116, 45, 116, 121, 112, 101>>, <<120, 45, 97>>}

\* Header values: "", "A/b".
HeaderValues == {EmptyString, <<65, 47, 98>>}

Payloads == {"d1"}

\* JSONP callbacks: "", "cb".
Callbacks == {EmptyString, <<99, 98>>}

\* Files: the absolute "/a" and the relative "b".
Files == {<<47, 97>>, <<98>>}

\* Download / inline target names: "f".
TargetNames == {<<102>>}

\* Layout and file names of the HTML methods: "l".
ViewNames == {<<108>>}

\* Redirect targets: "/x".
RedirectURLs == {<<47, 120>>}

Errors == {Nil, [type |-> "Error", Reason |-> "e1"]}

Cookies == {[Name |-> "c1"], [Name |-> "c2"]}

\* Renderers passed to Render: a custom RenderFunc, or nil.
CustomRenderers == {[type |-> "RenderFunc", fn |-> "f1"], Nil}

\* Readers passed to FromReader.
Readers == {[type |-> "io.ReadCloser", s |-> "s1"]}

ByteSlices == {"b1"}

RenderError == [type |-> "error", Reason |-> "render"]

\* What one Render call can do: write and succeed, or fail after a partial
\* write.
RenderResults ==
    {[written |-> <<"bytes">>, err |-> Nil],
     [written |-> <<"bytes">>, err |-> RenderError]}

\* The Context a Reply is created with: an empty response header map, the
\* application's base directory "/app" and its secure-JSON prefix ")]}',\n".
NewContext ==
    [Res |-> [Header |-> EmptyHeader],
     a |-> [BaseDir |-> <<47, 97, 112, 112>>,
            settings |-> [SecureJSONPrefix |-> <<41, 93, 125, 39, 44, 10>>]]]

\* ------------------------------------------------------------------------
\* State
\* ------------------------------------------------------------------------

VARIABLES
    r,       \* the Reply of the request being handled
    calls,   \* number of builder calls made on r so far
    lastOp,  \* the last builder call: its name and arguments
    obs,     \* what the calls made so far supplied (history, read by the properties)
    out      \* what the transport's flush did

vars == <<r, calls, lastOp, obs, out>>

VARIABLES
    bufPool,      \* the pool of byte buffers
    builderPool,  \* the pool of string builders
    held,         \* per task: the buffers (buf) and builders (bld) it holds
    tpc,          \* per task: idle, or inside releaseBuffer / releaseBuilder
    pobs          \* what the acquires returned so far (history)

poolVars == <<bufPool, builderPool, held, tpc, pobs>>

VARIABLES
    rnd,          \* the Render call of a renderer: receiver, position, result
    w,            \* the bytes the call wrote to its sink
    src,          \* the reader of a reader-backed call
    handles       \* the file handles os.Open returned so far

renderVars == <<rnd, w, src, handles>>

allVars == <<vars, poolVars, renderVars>>

FileOps == {"File", "FileDownload", "FileInline"}

\* The content type a call supplies, if any (a set with at most one value).
SuppliedContentType(op) ==
    CASE op.name = "ContentType" -> {op.args[1]}
      [] op.name \in {"Header", "HeaderAppend"} ->
            IF op.args[1] = HeaderContentType THEN {op.args[2]} ELSE {}
      [] op.name \in {"JSON", "JSONSecure"} -> {ContentTypeJSON}
      [] op.name = "JSONP" -> {ContentTypeJavascript}
      [] op.name = "XML" -> {ContentTypeXML}
      [] op.name = "Text" -> {ContentTypePlainText}
      [] op.name \in {"HTML", "HTMLl", "HTMLf", "HTMLlf"} -> {ContentTypeHTML}
      [] OTHER -> {}

\* The documented status code of a status-setting call, if it is one.
SuppliedStatus(op) ==
    CASE op.name = "Status" -> {op.args[1]}
      [] op.name = "RedirectWithStatus" -> {op.args[2]}
      [] op.name = "Redirect" -> {302}
      [] op.name = "Ok" -> {200}
      [] op.name = "Created" -> {201}
      [] op.name = "Accepted" -> {202}
      [] op.name = "NoContent" -> {204}
      [] op.name = "MovedPermanently" -> {301}
      [] op.name = "Found" -> {302}
      [] op.name = "TemporaryRedirect" -> {307}
      [] op.name = "BadRequest" -> {400}
      [] op.name = "Unauthorized" -> {401}
      [] op.name = "Forbidden" -> {403}
      [] op.name = "NotFound" -> {404}
      [] op.name = "MethodNotAllowed" -> {405}
      [] op.name = "NotAcceptable" -> {406}
      [] op.name = "Conflict" -> {409}
      [] op.name = "UnsupportedMediaType" -> {415}
      [] op.name = "InternalServerError" -> {500}
      [] op.name = "ServiceUnavailable" -> {503}
      [] OTHER -> {}

\* The path the file methods hand to their renderer: the file itself when it
\* is absolute, else the file below the application's base directory.
ResolvedFile(file) ==
    IF file[1] = 47 THEN file ELSE NewContext.a.BaseDir \o <<47>> \o file

\* The renderer a renderer-attaching call creates, if it is one.
SuppliedRenderer(op) ==
    CASE op.name = "Render" -> {op.args[1]}
      [] op.name = "JSON" -> {[type |-> "jsonRender", Data |-> op.args[1]]}
      [] op.name = "JSONSecure" ->
            {[type |-> "secureJSONRender", Data |-> op.args[1],
              Prefix |-> NewContext.a.settings.SecureJSONPrefix]}
      [] op.name = "JSONP" ->
            {[type |-> "jsonpRender", Data |-> op.args[1], Callback |-> op.args[2]]}
      [] op.name = "XML" -> {[type |-> "xmlRender", Data |-> op.args[1]]}
      [] op.name = "Text" ->
            {[type |-> "textRender", Format |-> op.args[1], Values |-> op.args[2]]}
      [] op.name = "Binary" ->
            {[type |-> "binaryRender", Path |-> EmptyString,
              Reader |-> [type |-> "bytes.Reader", s |-> op.args[1]]]}
      [] op.name = "FromReader" ->
            {[type |-> "binaryRender", Path |-> EmptyString, Reader |-> op.args[1]]}
      [] op.name \in FileOps ->
            {[type |-> "binaryRender", Path |-> ResolvedFile(op.args[1]), Reader |-> Nil]}
      [] op.name = "HTML" ->
            {[type |-> "htmlRender", Template |-> Nil, Layout |-> EmptyString,
              Filename |-> EmptyString, ViewArgs |-> op.args[1]]}
      [] op.name = "HTMLl" ->
            {[type |-> "htmlRender", Template |-> Nil, Layout |-> op.args[1],
              Filename |-> EmptyString, ViewArgs |-> op.args[2]]}
      [] op.name = "HTMLf" ->
            {[type |-> "htmlRender", Template |-> Nil, Layout |-> EmptyString,
              Filename |-> op.args[1], ViewArgs |-> op.args[2]]}
      [] op.name = "HTMLlf" ->
            {[type |-> "htmlRender", Template |-> Nil, Layout |-> op.args[1],
              Filename |-> op.args[2], ViewArgs |-> op.args[3]]}
      [] OTHER -> {}

\* The gzip-worthiness the file inspection reported to a file call.
InspectedWorth(op) ==
    IF op.name \in FileOps THEN {op.args[Len(op.args)]} ELSE {}

NoCalls ==
    [firstCT |-> EmptyString, lastStatus |-> 200, lastRdr |-> Nil,
     gzipDisabled |-> FALSE, inspectedFalse |-> FALSE, doneCalled |-> FALSE,
     redirectCalled |-> FALSE, cookies |-> << >>]

Observe(o, op) ==
    LET ct  == SuppliedContentType(op)
        st  == SuppliedStatus(op)
        rdr == SuppliedRenderer(op)
    IN  [firstCT |->
            IF o.firstCT = EmptyString /\ ct # {}
            THEN CHOOSE v \in ct : TRUE
            ELSE o.firstCT,
         lastStatus |-> IF st # {} THEN CHOOSE c \in st : TRUE ELSE o.lastStatus,
         lastRdr |-> IF rdr # {} THEN CHOOSE x \in rdr : TRUE ELSE o.lastRdr,
         gzipDisabled |-> o.gzipDisabled \/ op.name = "DisableGzip",
         inspectedFalse |-> o.inspectedFalse \/ InspectedWorth(op) = {FALSE},
         doneCalled |-> o.doneCalled \/ op.name = "Done",
         redirectCalled |->
            o.redirectCalled \/ op.name \in {"Redirect", "RedirectWithStatus"},
         cookies |->
            IF op.name = "Cookie" THEN o.cookies \o <<op.args[1]>> ELSE o.cookies]

NoOp == [name |-> "newReply", args |-> << >>]

Init ==
    /\ r = newReply(NewContext)
    /\ calls = 0
    /\ lastOp = NoOp
    /\ obs = NoCalls
    /\ out = NoOutput

\* One builder call op on r, whose result is the Reply rr.
Call(op, rr) ==
    /\ calls < MaxCalls
    /\ ~out.flushed
    /\ r' = rr
    /\ calls' = calls + 1
    /\ lastOp' = op
    /\ obs' = Observe(obs, op)
    /\ UNCHANGED <<out, poolVars, renderVars>>

Op(name, args) == [name |-> name, args |-> args]

StatusCall == \E code \in StatusInputs : Call(Op("Status", <<code>>), Status(r, code))

OkCall == Call(Op("Ok", << >>), Ok(r))

CreatedCall == Call(Op("Created", << >>), Created(r))

AcceptedCall == Call(Op("Accepted", << >>), Accepted(r))

NoContentCall == Call(Op("NoContent", << >>), NoContent(r))

MovedPermanentlyCall == Call(Op("MovedPermanently", << >>), MovedPermanently(r))

FoundCall == Call(Op("Found", << >>), Found(r))

TemporaryRedirectCall == Call(Op("TemporaryRedirect", << >>), TemporaryRedirect(r))

BadRequestCall == Call(Op("BadRequest", << >>), BadRequest(r))

UnauthorizedCall == Call(Op("Unauthorized", << >>), Unauthorized(r))

ForbiddenCall == Call(Op("Forbidden", << >>), Forbidden(r))

NotFoundCall == Call(Op("NotFound", << >>), NotFound(r))

MethodNotAllowedCall == Call(Op("MethodNotAllowed", << >>), MethodNotAllowed(r))

NotAcceptableCall == Call(Op("NotAcceptable", << >>), NotAcceptable(r))

ConflictCall == Call(Op("Conflict", << >>), Conflict(r))

UnsupportedMediaTypeCall == Call(Op("UnsupportedMediaType", << >>), UnsupportedMediaType(r))

InternalServerErrorCall == Call(Op("InternalServerError", << >>), InternalServerError(r))

ServiceUnavailableCall == Call(Op("ServiceUnavailable", << >>), ServiceUnavailable(r))

ContentTypeCall ==
    \E ct \in ContentTypeInputs : Call(Op("ContentType", <<ct>>), ContentType(r, ct))

JSONCall == \E d \in Payloads : Call(Op("JSON", <<d>>), JSON(r, d))

JSONSecureCall == \E d \in Payloads : Call(Op("JSONSecure", <<d>>), JSONSecure(r, d))

JSONPCall ==
    \E d \in Payloads, cb \in Callbacks : Call(Op("JSONP", <<d, cb>>), JSONP(r, d, cb))

XMLCall == \E d \in Payloads : Call(Op("XML", <<d>>), XML(r, d))

TextCall ==
    \E vs \in {<< >>, <<"v1">>} : Call(Op("Text", <<"fmt", vs>>), Text(r, "fmt", vs))

BinaryCall == \E b \in ByteSlices : Call(Op("Binary", <<b>>), Binary(r, b))

FromReaderCall ==
    \E rd \in Readers : Call(Op("FromReader", <<rd>>), FromReader(r, rd))

FileCall ==
    \E f \in Files, worth \in BOOLEAN :
        Call(Op("File", <<f, worth>>), File(r, f, worth))

FileDownloadCall ==
    \E f \in Files, n \in TargetNames, worth \in BOOLEAN :
        Call(Op("FileDownload", <<f, n, worth>>), FileDownload(r, f, n, worth))

FileInlineCall ==
    \E f \in Files, n \in TargetNames, worth \in BOOLEAN :
        Call(Op("FileInline", <<f, n, worth>>), FileInline(r, f, n, worth))

HTMLCall == \E d \in Payloads : Call(Op("HTML", <<d>>), HTML(r, d))

HTMLlCall ==
    \E l \in ViewNames, d \in Payloads : Call(Op("HTMLl", <<l, d>>), HTMLl(r, l, d))

HTMLfCall ==
    \E f \in ViewNames, d \in Payloads : Call(Op("HTMLf", <<f, d>>), HTMLf(r, f, d))

HTMLlfCall ==
    \E l \in ViewNames, f \in ViewNames, d \in Payloads :
        Call(Op("HTMLlf", <<l, f, d>>), HTMLlf(r, l, f, d))

RedirectCall ==
    \E u \in RedirectURLs : Call(Op("Redirect", <<u>>), Redirect(r, u))

RedirectWithStatusCall ==
    \E u \in RedirectURLs, code \in StatusInputs :
        Call(Op("RedirectWithStatus", <<u, code>>), RedirectWithStatus(r, u, code))

ErrorCall == \E e \in Errors : Call(Op("Error", <<e>>), Error(r, e))

RenderCall == \E x \in CustomRenderers : Call(Op("Render", <<x>>), Render(r, x))

HeaderCall ==
    \E k \in HeaderKeys, v \in HeaderValues :
        Call(Op("Header", <<k, v>>), Header(r, k, v))

HeaderAppendCall ==
    \E k \in HeaderKeys, v \in HeaderValues :
        Call(Op("HeaderAppend", <<k, v>>), HeaderAppend(r, k, v))

DoneCall == Call(Op("Done", << >>), Done(r))

CookieCall == \E c \in Cookies : Call(Op("Cookie", <<c>>), Cookie(r, c))

DisableGzipCall == Call(Op("DisableGzip", << >>), DisableGzip(r))

\* The observers assign no field: the Reply after the call is the Reply
\* before it, and the value they return is kept with the call.
IsContentTypeSetCall == Call(Op("IsContentTypeSet", <<IsContentTypeSet(r)>>), r)

BodyCall == Call(Op("Body", <<Body(r)>>), r)

\* The transport consumes the Reply once, after the handler returned.
FlushCall ==
    /\ ~out.flushed
    /\ \E result \in RenderResults : out' = TransportFlush(r, result)
    /\ UNCHANGED <<r, calls, lastOp, obs, poolVars, renderVars>>

Next ==
    \/ StatusCall
    \/ OkCall
    \/ CreatedCall
    \/ AcceptedCall
    \/ NoContentCall
    \/ MovedPermanentlyCall
    \/ FoundCall
    \/ TemporaryRedirectCall
    \/ BadRequestCall
    \/ UnauthorizedCall
    \/ ForbiddenCall
    \/ NotFoundCall
    \/ MethodNotAllowedCall
    \/ NotAcceptableCall
    \/ ConflictCall
    \/ UnsupportedMediaTypeCall
    \/ InternalServerErrorCall
    \/ ServiceUnavailableCall
    \/ ContentTypeCall
    \/ JSONCall
    \/ JSONSecureCall
    \/ JSONPCall
    \/ XMLCall
    \/ TextCall
    \/ BinaryCall
    \/ FromReaderCall
    \/ FileCall
    \/ FileDownloadCall
    \/ FileInlineCall
    \/ HTMLCall
    \/ HTMLlCall
    \/ HTMLfCall
    \/ HTMLlfCall
    \/ RedirectCall
    \/ RedirectWithStatusCall
    \/ ErrorCall
    \/ RenderCall
    \/ HeaderCall
    \/ HeaderAppendCall
    \/ DoneCall
    \/ CookieCall
    \/ DisableGzipCall
    \/ FlushCall

\* ------------------------------------------------------------------------
\* Properties
\* ------------------------------------------------------------------------

\* A step that is a builder call (not the flush, not stuttering).
IsCall == calls' = calls + 1

FormatOps ==
    {"JSON", "JSONSecure", "JSONP", "XML", "Text", "HTML", "HTMLl", "HTMLf", "HTMLlf"}

\* C1: the content type is first-write-wins.  In every state the content
\* type is the lower-cased form of the first non-empty value any call
\* supplied (empty while none was), and once it is non-empty no step
\* changes it.
C1_ContentTypeFirstWriteWins ==
    /\ [](r.ContType = ToLower(obs.firstCT))
    /\ [][r.ContType # EmptyString => r'.ContType = r.ContType]_vars

\* C1 witness: a second ContentType call with a different value kept the
\* first value, which was stored lower-cased.
C1_Witness ==
    /\ lastOp.name = "ContentType"
    /\ lastOp.args[1] # EmptyString
    /\ r.ContType # EmptyString
    /\ ToLower(lastOp.args[1]) # r.ContType
    /\ obs.firstCT # r.ContType

\* C2: after Header(Content-Type, "") the content type is empty and the
\* response header map is what it was before the call.
C2_HeaderEmptyValueClearsContentType ==
    [][(lastOp'.name = "Header" /\ IsCall
          /\ lastOp'.args[1] = HeaderContentType /\ lastOp'.args[2] = EmptyString)
       => (~IsContentTypeSet(r') /\ r'.ctx.Res.Header = r.ctx.Res.Header)]_vars

\* C3: once DisableGzip has been called, the gzip flag is false in every
\* later state.
C3_DisableGzipIsFinal == obs.gzipDisabled => ~r.gzip

\* C4 as stated: once a file call set the gzip flag false because the
\* inspection judged the file not gzip-worthy, the flag is false in every
\* later state.
C4_GzipNeverUpgraded == obs.inspectedFalse => ~r.gzip

\* C4 amended: a file call (File, FileDownload, FileInline) sets the gzip
\* flag to the inspection result of its own file, and no other builder call
\* sets a false gzip flag back to true.
C4_GzipUpgradedOnlyByFileInspection ==
    /\ [][(IsCall /\ lastOp'.name \in FileOps)
          => r'.gzip = lastOp'.args[Len(lastOp'.args)]]_vars
    /\ [][(IsCall /\ lastOp'.name \notin FileOps) => (r'.gzip => r.gzip)]_vars

\* C4 witness: the inspection of a file call set the flag false, and a later
\* call that is not a file call left it false.
C4_Witness ==
    /\ obs.inspectedFalse
    /\ ~obs.gzipDisabled
    /\ lastOp.name \notin FileOps
    /\ ~r.gzip

\* C5: a DisableGzip call that directly follows a file call which set the
\* gzip flag true leaves the flag false and the file's renderer attached.
C5_DisableGzipAfterFile ==
    [][(lastOp.name \in FileOps /\ r.gzip /\ lastOp'.name = "DisableGzip" /\ IsCall)
       => /\ ~r'.gzip
          /\ r'.Rdr = r.Rdr
          /\ r'.Rdr = binaryRender(ResolvedFile(lastOp.args[1]), Nil)]_vars

\* C5 witness: File (judged gzip-worthy) then DisableGzip.
C5_Witness ==
    /\ lastOp.name = "DisableGzip"
    /\ calls = 2
    /\ r.Rdr.type = "binaryRender"
    /\ r.Rdr.Reader = Nil
    /\ ~obs.inspectedFalse
    /\ ~r.gzip

\* C6: when Done() was called at any point before the flush, the flush
\* writes nothing to the sink and invokes no renderer, whatever is attached.
C6_NoWritesAfterDone ==
    (obs.doneCalled /\ out.flushed) => (out.sink = << >> /\ out.renders = 0)

\* C6 witness: a renderer was attached after Done(), and the Reply was flushed.
C6_Witness ==
    /\ out.flushed
    /\ obs.doneCalled
    /\ lastOp.name # "Done"
    /\ r.Rdr # Nil

\* C7: the flush dispatches by priority done, redirect, error, renderer.
C7_FlushPriority ==
    out.flushed =>
        /\ r.done => out = [NoOutput EXCEPT !.flushed = TRUE]
        /\ (~r.done /\ r.redirect) =>
              /\ out.redirected = [code |-> r.Code, location |-> r.path]
              /\ out.renders = 0 /\ out.sink = << >> /\ out.errTo = Nil
        /\ (~r.done /\ ~r.redirect /\ r.err # Nil) =>
              /\ out.errTo = r.err
              /\ out.renders = 0 /\ out.sink = << >> /\ out.redirected = Nil
        /\ (~r.done /\ ~r.redirect /\ r.err = Nil /\ r.Rdr # Nil) =>
              /\ out.renders = 1
              /\ out.redirected = Nil
              /\ out.errTo \in {Nil, RenderError}
              /\ \E result \in RenderResults :
                    out.sink = result.written /\ out.errTo = result.err

\* C7 witness: a Reply with a redirect, an attached error and a renderer was
\* flushed, and the redirect won.
C7_Witness ==
    /\ out.flushed
    /\ ~r.done /\ r.redirect /\ r.err # Nil /\ r.Rdr # Nil
    /\ out.redirected # Nil

\* The MIME string of a format method.
FormatContentType(name) ==
    CASE name \in {"JSON", "JSONSecure"} -> ContentTypeJSON
      [] name = "JSONP" -> ContentTypeJavascript
      [] name = "XML" -> ContentTypeXML
      [] name = "Text" -> ContentTypePlainText
      [] name \in {"HTML", "HTMLl", "HTMLf", "HTMLlf"} -> ContentTypeHTML

C9_LastRendererWins == r.Rdr = obs.lastRdr

\* C9 witness: Text replaced the renderer of an earlier JSON call.
C9_Witness ==
    /\ lastOp.name = "Text"
    /\ r.ContType = ContentTypeJSON
    /\ r.Rdr.type = "textRender"

\* C10: the status code is the documented code of the last status-setting
\* call, and 200 when there was none.
C10_StatusLastWriteWins == r.Code = obs.lastStatus

\* C10 witness: NotFound overwrote the 302 of an earlier Redirect.
C10_Witness ==
    /\ lastOp.name = "NotFound"
    /\ r.redirect
    /\ r.Code = 404

\* C11: Redirect sets redirect, status 302 and the target; RedirectWithStatus
\* does the same with the caller's code; both leave the renderer, content
\* type, cookies, gzip flag, done flag and attached error as they were.
C11_RedirectFrame ==
    [][(IsCall /\ lastOp'.name \in {"Redirect", "RedirectWithStatus"})
       => /\ r'.redirect
          /\ r'.path = lastOp'.args[1]
          /\ r'.Code = IF lastOp'.name = "Redirect" THEN 302 ELSE lastOp'.args[2]
          /\ r'.Rdr = r.Rdr
          /\ r'.ContType = r.ContType
          /\ r'.cookies = r.cookies
          /\ r'.gzip = r.gzip
          /\ r'.done = r.done
          /\ r'.err = r.err]_vars

\* C11 witness: RedirectWithStatus on a Reply that has a renderer and a
\* content type.
C11_Witness ==
    /\ lastOp.name = "RedirectWithStatus"
    /\ r.redirect
    /\ r.Code = lastOp.args[2]
    /\ r.path = lastOp.args[1]
    /\ r.Rdr # Nil
    /\ r.ContType # EmptyString

\* C12: Error attaches its argument and leaves the renderer, status, content
\* type, redirect, done, gzip and cookies as they were.
C12_ErrorFrame ==
    [][(IsCall /\ lastOp'.name = "Error")
       => /\ r'.err = lastOp'.args[1]
          /\ r'.Rdr = r.Rdr
          /\ r'.Code = r.Code
          /\ r'.ContType = r.ContType
          /\ r'.redirect = r.redirect
          /\ r'.done = r.done
          /\ r'.gzip = r.gzip
          /\ r'.cookies = r.cookies]_vars

\* C12 witness: Error on a Reply that already has a renderer.
C12_Witness ==
    /\ lastOp.name = "Error"
    /\ r.err # Nil
    /\ r.err = lastOp.args[1]
    /\ r.Rdr # Nil

IsPrefix(s, t) ==
    /\ Len(s) <= Len(t)
    /\ \A i \in 1..Len(s) : s[i] = t[i]

\* C13: the cookies are the arguments of the Cookie calls in call order,
\* duplicates kept, and every step leaves the earlier cookies as a prefix.
C13_CookiesAppendOnly ==
    /\ [](r.cookies = obs.cookies)
    /\ [][IsPrefix(r.cookies, r'.cookies)]_vars

\* C13 witness: the same cookie was added twice, and a later call that is
\* not Cookie kept both.
C13_Witness ==
    /\ Len(r.cookies) = 2
    /\ r.cookies[1] = r.cookies[2]
    /\ lastOp.name # "Cookie"

\* C14: a Header or HeaderAppend call whose key spells the content-type
\* header, in any letter case, leaves the response header map as it was and
\* changes no field of the Reply other than the content type.
C14_ContentTypeKeyNeverRaw ==
    [][(IsCall /\ lastOp'.name \in {"Header", "HeaderAppend"}
          /\ CanonicalHeaderKey(lastOp'.args[1]) = HeaderContentType)
       => /\ r'.ctx.Res.Header = r.ctx.Res.Header
          /\ [r' EXCEPT !.ContType = r.ContType] = r]_vars

\* C20: as long as nothing was flushed, Body() returns nil.
C20_BodyNilBeforeRender == ~out.flushed => Body(r) = Nil

\* C20 witness: Binary attached a renderer as a later call of a handler, and
\* Body() is nil.
C20_Witness ==
    /\ ~out.flushed
    /\ calls >= 2
    /\ lastOp.name = "Binary"
    /\ r.Rdr # Nil
    /\ Body(r) = Nil

\* ------------------------------------------------------------------------
\* Pooling layer: bufPool and builderPool, two sync.Pool of bytes.Buffer and
\* strings.Builder.  A pool is the content of every instance its New function
\* allocated (data) and, per instance, how many times it lies in the pool
\* (free).  The tasks are the request handlers that acquire, write and
\* release concurrently; each step below is one atomic operation on a pool
\* or on an instance a task holds.  A task writes only instances it holds
\* and releases an instance it holds once.  The two pools share no state, so
\* every behaviour of the tasks is an interleaving of a behaviour on bufPool
\* with one on builderPool; a behaviour below is one of these two.
\* ------------------------------------------------------------------------

Tasks == 1..NumTasks

\* The bytes a task writes: 'x'.
PoolBytes == {120}

\* &sync.Pool{New: ...}
NewPool == [free |-> << >>, data |-> << >>]

\* sync.Pool.Get: an instance of the pool is taken out of it, or (the pool
\* being empty, or Get ignoring what it holds) New allocates an empty one.
PoolGet(pool) ==
    {[pool |-> [pool EXCEPT !.free[i] = @ - 1], b |-> i] :
        i \in {j \in DOMAIN pool.free : pool.free[j] > 0}}
    \cup
    {[pool |-> [free |-> Append(pool.free, 0), data |-> Append(pool.data, << >>)],
      b |-> Len(pool.data) + 1]}

\* sync.Pool.Put
PoolPut(pool, b) == [pool EXCEPT !.free[b] = @ + 1]

\* bytes.Buffer.Reset / strings.Builder.Reset
Reset(pool, b) == [pool EXCEPT !.data[b] = << >>]

\* bytes.Buffer.Write / strings.Builder.Write of one byte
Write(pool, b, c) == [pool EXCEPT !.data[b] = Append(@, c)]

\* Mutation of acquireBuffer: the instance is handed out but stays in the pool.
acquireBuffer_StaysPooled(pool) ==
    {[pool |-> pool, b |-> i] :
        i \in {j \in DOMAIN pool.free : pool.free[j] > 0}}
    \cup
    {[pool |-> [free |-> Append(pool.free, 0), data |-> Append(pool.data, << >>)],
      b |-> Len(pool.data) + 1]}

\* acquireBuffer(): the outcomes of bufPool.Get()
acquireBuffer(pool) == PoolGet(pool)

\* Mutation of releaseBuffer: the Reset call is lost.
releaseBufferReset_Lost(pool, b) == pool

\* releaseBuffer(b), first statement: b.Reset() when b is not nil (0 is nil)
releaseBufferReset(pool, b) == IF b # 0 THEN Reset(pool, b) ELSE pool

\* releaseBuffer(b), second statement: bufPool.Put(b) when b is not nil
releaseBufferPut(pool, b) == IF b # 0 THEN PoolPut(pool, b) ELSE pool

\* acquireBuilder(): the outcomes of builderPool.Get()
acquireBuilder(pool) == PoolGet(pool)

\* releaseBuilder(b), first statement: b.Reset() when b is not nil
releaseBuilderReset(pool, b) == IF b # 0 THEN Reset(pool, b) ELSE pool

\* releaseBuilder(b), second statement: builderPool.Put(b) when b is not nil
releaseBuilderPut(pool, b) == IF b # 0 THEN PoolPut(pool, b) ELSE pool

Idle == [at |-> "idle", b |-> 0]

\* No task has used the pool.
Unused(pool) == pool = NewPool

PoolInit ==
    /\ bufPool = NewPool
    /\ builderPool = NewPool
    /\ held = [t \in Tasks |-> [buf |-> {}, bld |-> {}]]
    /\ tpc = [t \in Tasks |-> Idle]
    /\ pobs = [reused |-> FALSE, dirtyBuf |-> {}, dirtyBld |-> {}]

\* The history after an acquire returned instance b: reused when b had been
\* written before (dirty).
Acquired(dirty, b) == [pobs EXCEPT !.reused = @ \/ b \in dirty]

AcquireBuffer(t) ==
    /\ tpc[t] = Idle
    /\ Unused(builderPool)
    /\ \E o \in acquireBuffer(bufPool) :
        /\ Len(o.pool.data) <= MaxInstances
        /\ bufPool' = o.pool
        /\ held' = [held EXCEPT ![t].buf = @ \cup {o.b}]
        /\ pobs' = Acquired(pobs.dirtyBuf, o.b)
    /\ UNCHANGED <<builderPool, tpc, vars, renderVars>>

WriteBuffer(t) ==
    /\ tpc[t] = Idle
    /\ Unused(builderPool)
    /\ \E b \in held[t].buf, c \in PoolBytes :
        /\ Len(bufPool.data[b]) < MaxLen
        /\ bufPool' = Write(bufPool, b, c)
        /\ pobs' = [pobs EXCEPT !.dirtyBuf = @ \cup {b}]
    /\ UNCHANGED <<builderPool, held, tpc, vars, renderVars>>

\* releaseBuffer(b) is entered with a held buffer or with nil, and resets it.
ReleaseBufferReset(t) ==
    /\ tpc[t] = Idle
    /\ Unused(builderPool)
    /\ \E b \in held[t].buf \cup {0} :
        /\ bufPool' = releaseBufferReset(bufPool, b)
        /\ tpc' = [tpc EXCEPT ![t] = [at |-> "releaseBuffer", b |-> b]]
    /\ UNCHANGED <<builderPool, held, pobs, vars, renderVars>>

\* releaseBuffer(b) puts the buffer into the pool and returns; the task no
\* longer refers to the buffer.
ReleaseBufferPut(t) ==
    /\ tpc[t].at = "releaseBuffer"
    /\ bufPool' = releaseBufferPut(bufPool, tpc[t].b)
    /\ held' = [held EXCEPT ![t].buf = @ \ {tpc[t].b}]
    /\ tpc' = [tpc EXCEPT ![t] = Idle]
    /\ UNCHANGED <<builderPool, pobs, vars, renderVars>>

AcquireBuilder(t) ==
    /\ tpc[t] = Idle
    /\ Unused(bufPool)
    /\ \E o \in acquireBuilder(builderPool) :
        /\ Len(o.pool.data) <= MaxInstances
        /\ builderPool' = o.pool
        /\ held' = [held EXCEPT ![t].bld = @ \cup {o.b}]
        /\ pobs' = Acquired(pobs.dirtyBld, o.b)
    /\ UNCHANGED <<bufPool, tpc, vars, renderVars>>

WriteBuilder(t) ==
    /\ tpc[t] = Idle
    /\ Unused(bufPool)
    /\ \E b \in held[t].bld, c \in PoolBytes :
        /\ Len(builderPool.data[b]) < MaxLen
        /\ builderPool' = Write(builderPool, b, c)
        /\ pobs' = [pobs EXCEPT !.dirtyBld = @ \cup {b}]
    /\ UNCHANGED <<bufPool, held, tpc, vars, renderVars>>

ReleaseBuilderReset(t) ==
    /\ tpc[t] = Idle
    /\ Unused(bufPool)
    /\ \E b \in held[t].bld \cup {0} :
        /\ builderPool' = releaseBuilderReset(builderPool, b)
        /\ tpc' = [tpc EXCEPT ![t] = [at |-> "releaseBuilder", b |-> b]]
    /\ UNCHANGED <<bufPool, held, pobs, vars, renderVars>>

ReleaseBuilderPut(t) ==
    /\ tpc[t].at = "releaseBuilder"
    /\ builderPool' = releaseBuilderPut(builderPool, tpc[t].b)
    /\ held' = [held EXCEPT ![t].bld = @ \ {tpc[t].b}]
    /\ tpc' = [tpc EXCEPT ![t] = Idle]
    /\ UNCHANGED <<bufPool, pobs, vars, renderVars>>

PoolNext ==
    \/ \E t \in Tasks : AcquireBuffer(t)
    \/ \E t \in Tasks : WriteBuffer(t)
    \/ \E t \in Tasks : ReleaseBufferReset(t)
    \/ \E t \in Tasks : ReleaseBufferPut(t)
    \/ \E t \in Tasks : AcquireBuilder(t)
    \/ \E t \in Tasks : WriteBuilder(t)
    \/ \E t \in Tasks : ReleaseBuilderReset(t)
    \/ \E t \in Tasks : ReleaseBuilderPut(t)

\* ------------------------------------------------------------------------
\* binaryRender.Render, statement by statement.  rnd is the call: its
\* receiver f, its position pc, the calls it deferred, how its io.Copy ended
\* (copy), the error the deferred Close returned (closeErr) and the error
\* the call returns (result).  The file system holds a directory "/d" and a
\* regular file "/f", and nothing at "/m".
\* ------------------------------------------------------------------------

\* "/d"
DirPath == <<47, 100>>

\* "/f"
FilePath == <<47, 102>>

\* "/m"
MissingPath == <<47, 109>>

Paths == {DirPath, FilePath, MissingPath}

FileKind(path) ==
    CASE path = DirPath -> "dir"
      [] path = FilePath -> "file"
      [] OTHER -> "missing"

\* The bytes 'a', 'b' of readers and files.
DataBytes == {97, 98}

DataSeqs == UNION {[1..n -> DataBytes] : n \in 0..MaxData}

\* The content of the regular file: MaxData times 'a'.
FileData == [i \in 1..MaxData |-> 97]

\* The readers a binaryRender holds: an io.ReadCloser (FromReader) or a
\* bytes.Reader, which has no Close method (Binary).
RenderReaders ==
    {[type |-> "io.ReadCloser", s |-> d] : d \in DataSeqs}
    \cup {NewReader(d) : d \in DataSeqs}

\* The receivers of Render: reader-backed, or path-backed.
RenderInputs ==
    {binaryRender(EmptyString, rd) : rd \in RenderReaders}
    \cup {binaryRender(path, Nil) : path \in Paths}

PathError(op, path, errno) ==
    [type |-> "PathError", Op |-> op, Path |-> path, Err |-> errno]

\* os.Open(path): nothing there is ENOENT; what is there opens, or is denied.
OsOpenResults(path) ==
    IF FileKind(path) = "missing"
    THEN {PathError("open", path, "ENOENT")}
    ELSE {Nil, PathError("open", path, "EACCES")}

\* file.Stat()
StatResults(path) == {Nil, PathError("stat", path, "EIO")}

\* "' is a directory"
IsADirectory ==
    <<39, 32, 105, 115, 32, 97, 32, 100, 105, 114, 101, 99, 116, 111, 114, 121>>

\* fmt.Errorf("'%s' is a directory", path)
Errorf_IsADirectory(path) ==
    [type |-> "errorString", s |-> <<39>> \o path \o IsADirectory]

\* The errors that end an io.Copy: of the source's Read, of the sink's Write.
CopyErrors(kind) ==
    IF kind = "dir"
    THEN {PathError("read", DirPath, "EISDIR")}
    ELSE {[type |-> "error", Reason |-> "read"], [type |-> "error", Reason |-> "write"]}

CloseError == [type |-> "error", Reason |-> "close"]

NoSource == [closable |-> FALSE, data |-> << >>, pos |-> 0, closes |-> 0]

NoCopy == [ended |-> FALSE, err |-> Nil]

RenderIdle ==
    [f |-> Nil, pc |-> "idle", deferred |-> << >>, copy |-> NoCopy,
     closeErr |-> Nil, result |-> Nil, n |-> 0]

RenderInit ==
    /\ rnd = RenderIdle
    /\ w = << >>
    /\ src = NoSource
    /\ handles = << >>

\* ess.CloseQuietly(v), whose Close returns e: v is closed when it has a Close
\* method, and e is dropped.  The result is the reader and the handles after.
CloseQuietly(v, e) ==
    CASE v.kind = "reader" /\ src.closable ->
            [src |-> [src EXCEPT !.closes = @ + 1], handles |-> handles]
      [] v.kind = "file" ->
            [src |-> src,
             handles |-> [handles EXCEPT ![v.h].open = FALSE, ![v.h].closes = @ + 1]]
      [] OTHER -> [src |-> src, handles |-> handles]

\* The caller calls f.Render(w) with an empty sink.
RenderStart ==
    /\ rnd.pc \in {"idle", "done"}
    /\ rnd.n < MaxRenders
    /\ \E f \in RenderInputs :
        /\ rnd' = [RenderIdle EXCEPT !.f = f, !.pc = "entry", !.n = rnd.n + 1]
        /\ src' = IF f.Reader # Nil
                  THEN [closable |-> f.Reader.type = "io.ReadCloser",
                        data |-> f.Reader.s, pos |-> 0, closes |-> 0]
                  ELSE NoSource
    /\ w' = << >>
    /\ UNCHANGED <<handles, vars, poolVars>>

\* Mutation of the reader branch: the reader is closed at once, not deferred.
RenderReaderDefer_ClosesFirst ==
    /\ rnd.pc = "entry"
    /\ rnd.f.Reader # Nil
    /\ rnd' = [rnd EXCEPT !.pc = "copy"]
    /\ src' = CloseQuietly([kind |-> "reader"], Nil).src
    /\ UNCHANGED <<w, handles, vars, poolVars>>

\* if f.Reader != nil { defer ess.CloseQuietly(f.Reader)
RenderReaderDefer ==
    /\ rnd.pc = "entry"
    /\ rnd.f.Reader # Nil
    /\ rnd' = [rnd EXCEPT !.pc = "copy", !.deferred = <<[kind |-> "reader"]>>]
    /\ UNCHANGED <<w, src, handles, vars, poolVars>>

\* Mutation of the path branch: the opened file is not deferred for closing.
OsOpen_NoDefer ==
    /\ rnd.pc = "entry"
    /\ rnd.f.Reader = Nil
    /\ \E err \in OsOpenResults(rnd.f.Path) :
        IF err # Nil
        THEN /\ rnd' = [rnd EXCEPT !.pc = "return", !.result = err]
             /\ UNCHANGED handles
        ELSE /\ handles' = Append(handles, [path |-> rnd.f.Path, open |-> TRUE,
                                            closes |-> 0, pos |-> 0])
             /\ rnd' = [rnd EXCEPT !.pc = "stat"]
    /\ UNCHANGED <<w, src, vars, poolVars>>

\* file, err := os.Open(f.Path); if err != nil { return err };
\* defer ess.CloseQuietly(file)
OsOpen ==
    /\ rnd.pc = "entry"
    /\ rnd.f.Reader = Nil
    /\ \E err \in OsOpenResults(rnd.f.Path) :
        IF err # Nil
        THEN /\ rnd' = [rnd EXCEPT !.pc = "return", !.result = err]
             /\ UNCHANGED handles
        ELSE /\ handles' = Append(handles, [path |-> rnd.f.Path, open |-> TRUE,
                                            closes |-> 0, pos |-> 0])
             /\ rnd' = [rnd EXCEPT !.pc = "stat",
                                   !.deferred = <<[kind |-> "file", h |-> Len(handles) + 1]>>]
    /\ UNCHANGED <<w, src, vars, poolVars>>

\* fi, err := file.Stat(); if err != nil { return err }
FileStat ==
    /\ rnd.pc = "stat"
    /\ \E err \in StatResults(rnd.f.Path) :
        rnd' = IF err # Nil
               THEN [rnd EXCEPT !.pc = "return", !.result = err]
               ELSE [rnd EXCEPT !.pc = "isdir"]
    /\ UNCHANGED <<w, src, handles, vars, poolVars>>

\* Mutation of the directory test: the copy is tried whatever the path is.
IsDirCheck_Skipped ==
    /\ rnd.pc = "isdir"
    /\ rnd' = [rnd EXCEPT !.pc = "copy"]
    /\ UNCHANGED <<w, src, handles, vars, poolVars>>

\* if fi.IsDir() { return fmt.Errorf("'%s' is a directory", f.Path) }
IsDirCheck ==
    /\ rnd.pc = "isdir"
    /\ rnd' = IF FileKind(rnd.f.Path) = "dir"
              THEN [rnd EXCEPT !.pc = "return",
                               !.result = Errorf_IsADirectory(rnd.f.Path)]
              ELSE [rnd EXCEPT !.pc = "copy"]
    /\ UNCHANGED <<w, src, handles, vars, poolVars>>

\* What io.Copy reads from: the reader, or the handle the call opened.
CopyFrom ==
    IF rnd.f.Reader # Nil
    THEN [kind |-> "reader", data |-> src.data, pos |-> src.pos]
    ELSE [kind |-> FileKind(rnd.f.Path),
          data |-> IF FileKind(rnd.f.Path) = "file" THEN FileData ELSE << >>,
          pos |-> handles[Len(handles)].pos]

\* io.Copy moves the next byte of the source to the sink.
CopyByte ==
    /\ rnd.pc = "copy"
    /\ CopyFrom.kind # "dir"
    /\ CopyFrom.pos < Len(CopyFrom.data)
    /\ w' = Append(w, CopyFrom.data[CopyFrom.pos + 1])
    /\ IF rnd.f.Reader # Nil
       THEN src' = [src EXCEPT !.pos = @ + 1] /\ UNCHANGED handles
       ELSE handles' = [handles EXCEPT ![Len(handles)].pos = @ + 1] /\ UNCHANGED src
    /\ UNCHANGED <<rnd, vars, poolVars>>

\* io.Copy reaches the end of the source: _, err = io.Copy(...); return err
CopyEOF ==
    /\ rnd.pc = "copy"
    /\ CopyFrom.kind # "dir"
    /\ CopyFrom.pos = Len(CopyFrom.data)
    /\ rnd' = [rnd EXCEPT !.pc = "return", !.copy = [ended |-> TRUE, err |-> Nil],
                          !.result = Nil]
    /\ UNCHANGED <<w, src, handles, vars, poolVars>>

\* io.Copy stops at a failed Read or Write: _, err = io.Copy(...); return err
CopyFail ==
    /\ rnd.pc = "copy"
    /\ \E err \in CopyErrors(CopyFrom.kind) :
        rnd' = [rnd EXCEPT !.pc = "return", !.copy = [ended |-> TRUE, err |-> err],
                           !.result = err]
    /\ UNCHANGED <<w, src, handles, vars, poolVars>>

\* Render returns: its deferred call runs, whose Close succeeds or fails.
RenderReturn ==
    /\ rnd.pc = "return"
    /\ \E e \in {Nil, CloseError} :
        LET after == IF rnd.deferred = << >>
                     THEN [src |-> src, handles |-> handles]
                     ELSE CloseQuietly(rnd.deferred[1], e)
        IN  /\ src' = after.src
            /\ handles' = after.handles
            /\ rnd' = [rnd EXCEPT !.pc = "done", !.deferred = << >>,
                          !.closeErr = IF <<after.src, after.handles>> = <<src, handles>>
                                       THEN Nil ELSE e]
    /\ UNCHANGED <<w, vars, poolVars>>

RenderNext ==
    \/ RenderStart
    \/ RenderReaderDefer
    \/ OsOpen
    \/ FileStat
    \/ IsDirCheck
    \/ CopyByte
    \/ CopyEOF
    \/ CopyFail
    \/ RenderReturn

\* The builder calls and the two observers.
NextWithObservers ==
    \/ Next
    \/ IsContentTypeSetCall
    \/ BodyCall

\* C22: once done is set no later call on the Reply clears it, and once
\* redirect is set no later call clears it.
C22_DoneRedirectSticky ==
    [][(r.done => r'.done) /\ (r.redirect => r'.redirect)]_vars

\* C22 witness: Done and a redirect were called, and a Status call followed.
C22_Witness ==
    /\ obs.doneCalled
    /\ obs.redirectCalled
    /\ lastOp.name = "Status"
    /\ r.done
    /\ r.redirect

\* C23: Status changes only the status code, Done only the done flag,
\* DisableGzip only the gzip flag, Cookie only the cookies, Render, FromReader
\* and Binary only the attached renderer, and IsContentTypeSet and Body
\* nothing; every other field and the response header map stay as they were.
C23_SingleFieldMutators ==
    [][IsCall =>
        /\ lastOp'.name = "Status" => [r' EXCEPT !.Code = r.Code] = r
        /\ lastOp'.name = "Done" => [r' EXCEPT !.done = r.done] = r
        /\ lastOp'.name = "DisableGzip" => [r' EXCEPT !.gzip = r.gzip] = r
        /\ lastOp'.name = "Cookie" => [r' EXCEPT !.cookies = r.cookies] = r
        /\ lastOp'.name \in {"Render", "FromReader", "Binary"}
              => [r' EXCEPT !.Rdr = r.Rdr] = r
        /\ lastOp'.name \in {"IsContentTypeSet", "Body"} => r' = r]_vars

\* C23 witness: IsContentTypeSet answered true on a Reply that has a
\* renderer and a status other than the initial one.
C23_Witness ==
    /\ lastOp.name = "IsContentTypeSet"
    /\ lastOp.args[1]
    /\ r.Rdr # Nil
    /\ r.Code # newReply(NewContext).Code

\* ------------------------------------------------------------------------
\* Properties of the pools and of binaryRender.Render
\* ------------------------------------------------------------------------

\* The instances task t holds after a step and did not hold before it.
NewlyHeld(t) ==
    [buf |-> held'[t].buf \ held[t].buf, bld |-> held'[t].bld \ held[t].bld]

\* C15: under every interleaving of acquires, writes and releases, every
\* buffer and every string builder an acquire returns is empty at the moment
\* it is returned.
C15_PoolRoundTripEmpty ==
    [][\A t \in Tasks :
        /\ \A b \in NewlyHeld(t).buf : bufPool'.data[b] = << >>
        /\ \A b \in NewlyHeld(t).bld : builderPool'.data[b] = << >>]_allVars

\* A task holds an empty buffer that was written, released and acquired again.
C15_Witness ==
    /\ pobs.reused
    /\ \E t \in Tasks : \E b \in held[t].buf :
        b \in pobs.dirtyBuf /\ bufPool.data[b] = << >>

\* No instance is held by two tasks, and none is held while it lies in the pool.
Exclusive(pool, holders) ==
    /\ \A t1, t2 \in Tasks : t1 # t2 => holders[t1] \cap holders[t2] = {}
    /\ \A b \in DOMAIN pool.free :
        /\ pool.free[b] <= 1
        /\ pool.free[b] = 1 => \A t \in Tasks : b \notin holders[t]

\* Every outcome of an acquire is an instance of the pool, and there is one.
Returns(outcomes) ==
    /\ outcomes # {}
    /\ \A o \in outcomes : o.b \in DOMAIN o.pool.data

\* C16: under every interleaving no pooled instance is held by two tasks at
\* the same time, and every acquire returns an instance, a pooled one or a
\* new one, without blocking.
C16_PoolsConcurrencySafe ==
    /\ Exclusive(bufPool, [t \in Tasks |-> held[t].buf])
    /\ Exclusive(builderPool, [t \in Tasks |-> held[t].bld])
    /\ Returns(acquireBuffer(bufPool))
    /\ Returns(acquireBuilder(builderPool))

\* Two tasks hold a buffer each while a buffer has been recycled.
C16_Witness ==
    /\ pobs.reused
    /\ \E t1, t2 \in Tasks :
        t1 # t2 /\ held[t1].buf # {} /\ held[t2].buf # {}

\* A Render call is under way or has returned, on a reader that has a Close.
ClosableReaderCall ==
    rnd.pc # "idle" /\ rnd.f.Reader # Nil /\ src.closable

\* C17: a Render call on a reader that supports closing calls Close exactly
\* once and only after the copy has ended, and returns the copy's result
\* whatever Close returned.
C17_ReaderClosedAfterCopy ==
    ClosableReaderCall =>
        /\ src.closes <= 1
        /\ src.closes = 1 => rnd.copy.ended
        /\ rnd.pc = "done" =>
            src.closes = 1 /\ rnd.copy.ended /\ rnd.result = rnd.copy.err

\* A copy that succeeded after writing, and whose Close then failed.
C17_Witness ==
    /\ ClosableReaderCall
    /\ rnd.pc = "done"
    /\ w # << >>
    /\ rnd.closeErr = CloseError
    /\ rnd.result = Nil

\* C18: when a path-based Render call has returned, whatever its outcome, no
\* file handle is open, and every handle that was opened was closed exactly
\* once.
C18_NoHandleAcrossCalls ==
    /\ \A h \in DOMAIN handles :
        handles[h].closes <= 1 /\ (handles[h].open <=> handles[h].closes = 0)
    /\ rnd.pc \in {"idle", "done"} =>
        \A h \in DOMAIN handles : ~handles[h].open /\ handles[h].closes = 1

\* A call that opened the file and returned the error of Stat.
C18_Witness ==
    /\ rnd.pc = "done"
    /\ rnd.f.Reader = Nil
    /\ rnd.result = PathError("stat", rnd.f.Path, "EIO")
    /\ handles # << >>
    /\ ~handles[Len(handles)].open

HasSuffix(s, suffix) ==
    /\ Len(s) >= Len(suffix)
    /\ SubSeq(s, Len(s) - Len(suffix) + 1, Len(s)) = suffix

\* A path-based Render call has its result.
PathCallResult == rnd.pc \in {"return", "done"} /\ rnd.f.Reader = Nil

\* The error says "... is a directory".
IsDirectoryError(err) ==
    err.type = "errorString" /\ HasSuffix(err.s, Tail(IsADirectory))

\* C19 as stated: on a directory Render returns a "is a directory" error, on
\* a path that does not exist the error of Open, and in both cases nothing is
\* written to the sink.
C19_PathRenderFailsCleanly ==
    PathCallResult =>
        /\ FileKind(rnd.f.Path) = "dir" =>
            IsDirectoryError(rnd.result) /\ w = << >>
        /\ FileKind(rnd.f.Path) = "missing" =>
            rnd.result = PathError("open", rnd.f.Path, "ENOENT") /\ w = << >>

\* The call opened the path and read its file information.
OpenedAndStatted ==
    /\ rnd.result \notin OsOpenResults(rnd.f.Path) \ {Nil}
    /\ rnd.result \notin StatResults(rnd.f.Path) \ {Nil}

\* C19 amended: on a directory that opens and whose Stat succeeds Render
\* returns a "is a directory" error; on a directory it returns an error in
\* every case; on a path that does not exist it returns the error of Open;
\* and in all these cases nothing is written to the sink.
C19_PathRenderFailsCleanlyWhenStatted ==
    PathCallResult =>
        /\ FileKind(rnd.f.Path) = "dir" =>
            /\ rnd.result # Nil
            /\ OpenedAndStatted => IsDirectoryError(rnd.result)
            /\ w = << >>
        /\ FileKind(rnd.f.Path) = "missing" =>
            rnd.result = PathError("open", rnd.f.Path, "ENOENT") /\ w = << >>

\* A call on the directory returned the "is a directory" error.
C19_Witness ==
    /\ rnd.pc = "done"
    /\ rnd.f.Reader = Nil
    /\ FileKind(rnd.f.Path) = "dir"
    /\ rnd.result = Errorf_IsADirectory(DirPath)
    /\ w = << >>

\* ------------------------------------------------------------------------
\* xmlRender.Render and Data.MarshalXML, statement by statement.  rnd is the
\* call: its receiver f, its position pc, the tokens MarshalXML still has to
\* encode, the encoder's buffer buf, whether Encode was entered (encoding),
\* and the error the call returns (result).  The encoder writes its buffer
\* to the sink when it is flushed; the payloads here stay below the size at
\* which it writes earlier.
\* ------------------------------------------------------------------------

\* xml.Header: the declaration and a line feed
xmlHeaderBytes ==
    <<60, 63, 120, 109, 108, 32, 118, 101, 114, 115, 105, 111, 110, 61, 34,
      49, 46, 48, 34, 32, 101, 110, 99, 111, 100, 105, 110, 103, 61, 34, 85, 84,
      70, 45, 56, 34, 63, 62, 10>>

\* strings.Title of a key: its first letter in upper case.
Title(k) ==
    IF k # << >> /\ k[1] >= 97 /\ k[1] <= 122
    THEN <<k[1] - 32>> \o Tail(k)
    ELSE k

\* fmt.Sprintf("%v", v) of a string or of a one-digit integer.
Sprintf_v(v) == IF v.type = "int" THEN <<48 + v.n>> ELSE v.s

\* xml.EscapeText: '<' becomes "&lt;", '&' becomes "&amp;".
RECURSIVE EscapeText(_)
EscapeText(s) ==
    IF s = << >> THEN << >>
    ELSE (CASE s[1] = 60 -> <<38, 108, 116, 59>>
            [] s[1] = 38 -> <<38, 97, 109, 112, 59>>
            [] OTHER -> <<s[1]>>) \o EscapeText(Tail(s))

\* The keys "a", "b" and the empty key; the values "x", "<" and 7.
XMLKeys == {<<97>>, <<98>>, << >>}

XMLValues ==
    {[type |-> "string", s |-> <<120>>], [type |-> "string", s |-> <<60>>],
     [type |-> "int", n |-> 7]}

\* The payloads of an xmlRender: a Data of at most two entries, a value the
\* encoder marshals by reflection (to "<v></v>"), and one it cannot marshal.
XMLPayloads ==
    {[type |-> "Data", m |-> m] :
        m \in UNION {[ks -> XMLValues] : ks \in {s \in SUBSET XMLKeys : Cardinality(s) <= 2}}}
    \cup {[type |-> "struct"], [type |-> "func"]}

\* The orders in which range visits the keys of a map.
RangeOrders(m) ==
    {o \in [1..Cardinality(DOMAIN m) -> DOMAIN m] :
        \A i, j \in DOMAIN o : i # j => o[i] # o[j]}

\* "Data": the local name of the start element the encoder hands MarshalXML
StartData == [Name |-> <<68, 97, 116, 97>>]

\* Data.MarshalXML, the token list: start, then per key (in the order o) a
\* start element named Title(k), the value as character data and the end
\* element, then the end of start.
RECURSIVE EntryTokens(_, _)
EntryTokens(m, o) ==
    IF o = << >> THEN << >>
    ELSE <<[t |-> "StartElement", Name |-> Title(o[1])],
           [t |-> "CharData", s |-> Sprintf_v(m[o[1]])],
           [t |-> "EndElement", Name |-> Title(o[1])]>> \o EntryTokens(m, Tail(o))

MarshalXMLTokens(m, o, start) ==
    <<[t |-> "StartElement", Name |-> start.Name]>>
    \o EntryTokens(m, o)
    \o <<[t |-> "EndElement", Name |-> start.Name]>>

XMLTokenError == [type |-> "error", Reason |-> "xml: tag with no name"]

XMLUnsupported == [type |-> "UnsupportedTypeError"]

XMLWriteError == [type |-> "error", Reason |-> "write"]

\* e.EncodeToken(t): the bytes of the token, or the error of a tag that has
\* no name.
EncodeToken(tok) ==
    CASE tok.t = "CharData" -> [bytes |-> EscapeText(tok.s), err |-> Nil]
      [] tok.Name = << >> -> [bytes |-> << >>, err |-> XMLTokenError]
      [] tok.t = "StartElement" -> [bytes |-> <<60>> \o tok.Name \o <<62>>, err |-> Nil]
      [] OTHER -> [bytes |-> <<60, 47>> \o tok.Name \o <<62>>, err |-> Nil]

\* w.Write(p): all of p is written, or a part of it and the write fails.
SinkWrites(p) ==
    {[n |-> Len(p), err |-> Nil]}
    \cup {[n |-> n, err |-> XMLWriteError] : n \in {0, Len(p) - 1} \cap (0..Len(p))}

xmlIdle ==
    [f |-> Nil, pc |-> "idle", tokens |-> << >>, buf |-> << >>,
     encoding |-> FALSE, result |-> Nil, n |-> rnd.n]

\* The caller calls x.Render(w) with an empty sink.
XMLRenderStart ==
    /\ rnd.pc \in {"idle", "done"}
    /\ rnd.n < MaxRenders
    /\ \E data \in XMLPayloads :
        rnd' = [xmlIdle EXCEPT !.f = xmlRender(data), !.pc = "header", !.n = rnd.n + 1]
    /\ w' = << >>
    /\ UNCHANGED <<src, handles, vars, poolVars>>

\* Mutation of the first statement: the error of the write is dropped.
XMLWriteHeader_DropsError ==
    /\ rnd.pc = "header"
    /\ \E wr \in SinkWrites(xmlHeaderBytes) :
        /\ w' = w \o SubSeq(xmlHeaderBytes, 1, wr.n)
        /\ rnd' = [rnd EXCEPT !.pc = "encode"]
    /\ UNCHANGED <<src, handles, vars, poolVars>>

\* if _, err := w.Write(xmlHeaderBytes); err != nil { return err }
XMLWriteHeader ==
    /\ rnd.pc = "header"
    /\ \E wr \in SinkWrites(xmlHeaderBytes) :
        /\ w' = w \o SubSeq(xmlHeaderBytes, 1, wr.n)
        /\ rnd' = IF wr.err # Nil
                  THEN [rnd EXCEPT !.pc = "done", !.result = wr.err]
                  ELSE [rnd EXCEPT !.pc = "encode"]
    /\ UNCHANGED <<src, handles, vars, poolVars>>

\* xml.NewEncoder(w).Encode(x.Data): a Data is handed to its MarshalXML,
\* which builds its tokens; another value is marshalled into the buffer, or
\* cannot be marshalled.
XMLEncode ==
    /\ rnd.pc = "encode"
    /\ LET data == rnd.f.Data
       IN  CASE data.type = "Data" ->
                    \E o \in RangeOrders(data.m) :
                        rnd' = [rnd EXCEPT !.pc = "tokens", !.encoding = TRUE,
                                   !.tokens = MarshalXMLTokens(data.m, o, StartData)]
             [] data.type = "struct" ->
                    rnd' = [rnd EXCEPT !.pc = "flush", !.encoding = TRUE,
                               !.buf = <<60, 118, 62, 60, 47, 118, 62>>]
             [] OTHER ->
                    rnd' = [rnd EXCEPT !.pc = "done", !.encoding = TRUE,
                               !.result = XMLUnsupported]
    /\ UNCHANGED <<w, src, handles, vars, poolVars>>

\* for _, t := range tokens { if err = e.EncodeToken(t); err != nil { return err } }
XMLEncodeToken ==
    /\ rnd.pc = "tokens"
    /\ rnd.tokens # << >>
    /\ LET enc == EncodeToken(Head(rnd.tokens))
       IN  rnd' = IF enc.err # Nil
                  THEN [rnd EXCEPT !.pc = "done", !.result = enc.err]
                  ELSE [rnd EXCEPT !.tokens = Tail(@), !.buf = @ \o enc.bytes,
                                   !.pc = IF Tail(rnd.tokens) = << >> THEN "flush" ELSE "tokens"]
    /\ UNCHANGED <<w, src, handles, vars, poolVars>>

\* return e.Flush(): the buffer is written to the sink, and Encode returns.
XMLFlush ==
    /\ rnd.pc = "flush"
    /\ \E wr \in SinkWrites(rnd.buf) :
        /\ w' = w \o SubSeq(rnd.buf, 1, wr.n)
        /\ rnd' = [rnd EXCEPT !.pc = "done", !.buf = << >>, !.result = wr.err]
    /\ UNCHANGED <<src, handles, vars, poolVars>>

XMLNext ==
    \/ XMLRenderStart
    \/ XMLWriteHeader
    \/ XMLEncode
    \/ XMLEncodeToken
    \/ XMLFlush

\* An xmlRender.Render call is under way or has returned.
XMLRenderCall == rnd.pc # "idle"

\* s begins with the whole of p.
HasPrefix(s, p) == Len(s) >= Len(p) /\ SubSeq(s, 1, Len(p)) = p

\* C21: in every xmlRender.Render call the declaration is written to the sink
\* before any byte of the payload; when the write of the declaration fails
\* Render returns that error and does not attempt the encoding; when the
\* encoding fails Render returns its error and the declaration is written.
C21_DeclarationFirst ==
    XMLRenderCall =>
        /\ HasPrefix(w, xmlHeaderBytes) \/ (w # xmlHeaderBytes /\ IsPrefix(w, xmlHeaderBytes))
        /\ ~HasPrefix(w, xmlHeaderBytes) =>
            /\ ~rnd.encoding /\ rnd.buf = << >> /\ rnd.tokens = << >>
            /\ rnd.pc = "done" => rnd.result = XMLWriteError
        /\ rnd.encoding => HasPrefix(w, xmlHeaderBytes)
        /\ (rnd.pc = "done" /\ rnd.encoding /\ rnd.result = Nil) =>
            Len(w) > Len(xmlHeaderBytes)

\* A call whose encoding failed after the declaration was written.
C21_Witness ==
    /\ XMLRenderCall
    /\ rnd.pc = "done"
    /\ rnd.encoding
    /\ rnd.result = XMLTokenError
    /\ w = xmlHeaderBytes

\* ------------------------------------------------------------------------
\* Specifications
\* ------------------------------------------------------------------------

\* Before any call: the Reply as newReply made it, the pools as created, no
\* Render call under way.
SpecInit == Init /\ PoolInit /\ RenderInit

\* One Reply and the calls a handler makes on it.
Spec == SpecInit /\ [][Next]_allVars

\* One Reply, the calls a handler makes on it and its observers.
SpecObservers == SpecInit /\ [][NextWithObservers]_allVars

\* The two pools and the tasks that use them.
SpecPool == SpecInit /\ [][PoolNext]_allVars

\* The Render calls of binary renderers.
SpecRender == SpecInit /\ [][RenderNext]_allVars

\* The Render calls of XML renderers.
SpecXML == SpecInit /\ [][XMLNext]_allVars

====
